---- MODULE Spec2Model ----
(***************************************************************************)
(* The feature resolver of cargo_toml (src/src/features.rs): the parser of *)
(* the `[features]` micro-syntax, the synthesis of implied features from   *)
(* optional dependencies, the enabled_by index, the inlining of hidden     *)
(* (`_`-prefixed) features and the recursive closure query.                *)
(*                                                                         *)
(* A string is a sequence of tokens.  A token is one character, except     *)
(* that the four characters `dep:` and the word `default` are one token    *)
(* each.  No one-character token is a prefix of a longer token, so the     *)
(* lexicographic order of token sequences is the byte order of the strings *)
(* they stand for.                                                         *)
(***************************************************************************)
EXTENDS Integers, Sequences, FiniteSets, TLC

VARIABLES
    manifest,                \* the input: a Manifest (features, dependency sections, bin, package)
    always_keep,             \* Resolver.always_keep: {} for None, {S} for Some(cb), cb(k) <=> k \in S
    pc,                      \* "input", "parsed" (a Features value was returned), "panicked"
    via,                     \* which entry point produced the result: "none", "parse", "parse_custom"
    features,                \* Features.features
    dependencies,            \* Features.dependencies
    hidden_features,         \* Features.hidden_features
    removed_hidden_features, \* Features.removed_hidden_features
    linked_features,         \* the local `features` of the entry point when set_enabled_by returned
    parsed_features,         \* the local `features` of the entry point when parse_features returned
    walk                     \* the state of one Feature::enables_recursive call

vars == <<manifest, always_keep, pc, via, features, dependencies, hidden_features,
          removed_hidden_features, linked_features, parsed_features, walk>>

-----------------------------------------------------------------------------
(* Strings, ordered maps and options                                       *)

\* The tokens, in byte order of the strings they stand for.
Alphabet == <<"/", "?", "_", "a", "b", "c", "default", "dep:", "h", "i", "k", "p", "x", "y">>

Rank(t) == CHOOSE i \in 1..Len(Alphabet) : Alphabet[i] = t

\* str < str of Rust: lexicographic.
StrLess(s, t) ==
    \E i \in 1..(Len(s) + 1) :
        /\ \A j \in 1..(i - 1) : j <= Len(t) /\ s[j] = t[j]
        /\ \/ i > Len(s) /\ i <= Len(t)
           \/ i <= Len(s) /\ i <= Len(t) /\ Rank(s[i]) < Rank(t[i])

\* The elements of a BTreeSet / the keys of a BTreeMap in iteration order.
RECURSIVE Sorted(_)
Sorted(S) ==
    IF S = {} THEN <<>>
    ELSE LET m == CHOOSE x \in S : \A y \in S : x = y \/ StrLess(x, y)
         IN <<m>> \o Sorted(S \ {m})

Take(s, n) == SubSeq(s, 1, IF Len(s) < n THEN Len(s) ELSE n)

Range(s) == {s[i] : i \in 1..Len(s)}

EmptyMap == [x \in {} |-> x]

Put(m, k, v) == [x \in DOMAIN m \cup {k} |-> IF x = k THEN v ELSE m[x]]

Remove(m, k) == [x \in DOMAIN m \ {k} |-> m[x]]

\* Option<T> is a set with at most one element.
None == {}

Some(v) == {v}

Unwrap(o) == CHOOSE v \in o : TRUE

starts_with_underscore(k) == Len(k) > 0 /\ k[1] = "_"

DEFAULT == <<"default">>

-----------------------------------------------------------------------------
(* Feature-spec parser                                                     *)

\* Scaled down from 2048 so that the bounds of the model reach the cap.
MAX_ITEMS == 4

\* parse_action with a merge in which the first occurrence of a dependency fixes its
\* flags: only dep_features is updated on the later ones.
parse_action_first_wins(acc, action) ==
    LET slashes == {i \in 1..Len(action) : action[i] = "/"}
        slash == IF slashes = {} THEN 0
                 ELSE CHOOSE i \in slashes : \A j \in slashes : i <= j
        part0 == IF slash = 0 THEN action ELSE SubSeq(action, 1, slash - 1)
        dep_feature == IF slash = 0 THEN None
                       ELSE Some(SubSeq(action, slash + 1, Len(action)))
        is_dep_prefix == Len(part0) > 0 /\ part0[1] = "dep:"
        stripped == IF is_dep_prefix THEN Tail(part0) ELSE part0
        is_conditional == Len(stripped) > 0 /\ stripped[Len(stripped)] = "?"
        atarget == IF is_conditional THEN SubSeq(stripped, 1, Len(stripped) - 1)
                   ELSE stripped
    IN  IF is_dep_prefix \/ dep_feature # None
        THEN LET old == IF atarget \in DOMAIN acc.enables_deps
                        THEN acc.enables_deps[atarget]
                        ELSE [is_conditional |-> is_conditional,
                              is_dep_only |-> is_dep_prefix,
                              dep_features |-> {}]
             IN [acc EXCEPT !.enables_deps =
                    Put(@, atarget, [old EXCEPT !.dep_features = @ \cup dep_feature])]
        ELSE [acc EXCEPT !.enables_features = @ \cup {atarget}]

\* One iteration of the closure in parse_feature: `acc` is the pair
\* (enables_deps, enables_features) built so far.
parse_action(acc, action) ==
    LET slashes == {i \in 1..Len(action) : action[i] = "/"}
        slash == IF slashes = {} THEN 0
                 ELSE CHOOSE i \in slashes : \A j \in slashes : i <= j
        part0 == IF slash = 0 THEN action ELSE SubSeq(action, 1, slash - 1)
        dep_feature == IF slash = 0 THEN None
                       ELSE Some(SubSeq(action, slash + 1, Len(action)))
        is_dep_prefix == Len(part0) > 0 /\ part0[1] = "dep:"
        stripped == IF is_dep_prefix THEN Tail(part0) ELSE part0
        is_conditional == Len(stripped) > 0 /\ stripped[Len(stripped)] = "?"
        atarget == IF is_conditional THEN SubSeq(stripped, 1, Len(stripped) - 1)
                   ELSE stripped
        is_dep_only == is_dep_prefix
    IN  IF is_dep_only \/ dep_feature # None
        THEN LET old == IF atarget \in DOMAIN acc.enables_deps
                        THEN acc.enables_deps[atarget]
                        ELSE [is_conditional |-> is_conditional,
                              is_dep_only |-> is_dep_only,
                              dep_features |-> {}]
                 new == [is_conditional |-> IF ~is_conditional THEN FALSE
                                            ELSE old.is_conditional,
                         is_dep_only |-> IF is_dep_only THEN TRUE ELSE old.is_dep_only,
                         dep_features |-> old.dep_features \cup dep_feature]
             IN [acc EXCEPT !.enables_deps = Put(@, atarget, new)]
        ELSE [acc EXCEPT !.enables_features = @ \cup {atarget}]

RECURSIVE parse_actions(_, _)
parse_actions(acc, actions) ==
    IF actions = <<>> THEN acc
    ELSE parse_actions(parse_action(acc, Head(actions)), Tail(actions))

parse_feature(feature_key, actions) ==
    LET acc == parse_actions([enables_deps |-> EmptyMap, enables_features |-> {}],
                             Take(actions, MAX_ITEMS))
    IN [key |-> feature_key,
        enables_features |-> acc.enables_features,
        required_by_bins |-> <<>>,
        enables_deps |-> acc.enables_deps,
        explicit |-> TRUE,
        enabled_by |-> {}]

\* `taken` is the set of keys the caller's iterator yields after .take(MAX_ITEMS);
\* `section` is the features section it iterates.
parse_features(section, taken, has_explicit_default) ==
    LET keys == taken \cup (IF has_explicit_default THEN {} ELSE {DEFAULT})
    IN [k \in keys |-> parse_feature(k, IF k \in taken THEN section[k] ELSE <<>>)]

-----------------------------------------------------------------------------
(* Dependencies and implied features                                       *)

\* Kind derives Ord: Normal < Build < Dev.
KindRank(kind) == CASE kind = "Normal" -> 0 [] kind = "Build" -> 1 [] kind = "Dev" -> 2

\* TargetKey derives Ord: by kind, then by target, None before Some.
TargetKeyLess(x, y) ==
    \/ KindRank(x.kind) < KindRank(y.kind)
    \/ /\ x.kind = y.kind
       /\ \/ x.target = None /\ y.target # None
          \/ x.target # None /\ y.target # None /\ StrLess(Unwrap(x.target), Unwrap(y.target))

\* Dependency::optional
optional(dep) == IF dep.tag = "Simple" THEN FALSE ELSE dep.optional

\* Dependency::package
package(dep) == IF dep.tag = "Detailed" THEN dep.package ELSE None

\* Dependency::detail
dependency_detail(dep) == IF dep.tag = "Detailed" THEN Some(dep) ELSE None

\* FeatureDependency::detail: the first entry of the ordered map `targets`.
\* None stands for the panic of unwrap() on an empty map.
detail(fd) ==
    IF DOMAIN fd.targets = {} THEN None
    ELSE LET k == CHOOSE x \in DOMAIN fd.targets :
                      \A y \in DOMAIN fd.targets : x = y \/ TargetKeyLess(x, y)
         IN Some([dep |-> fd.targets[k], kind |-> k.kind])

\* add_dependency that synthesizes the feature of every optional dependency, also of
\* one that a feature names with `dep:`.
add_dependency_ignoring_dep_syntax(st, named, dep_kind, only_for_target, key, dep) ==
    LET is_optional == optional(dep)
        vacant == key \notin DOMAIN st.deps
    IN  IF ~is_optional /\ named = None /\ vacant THEN st
        ELSE
        LET entry == IF vacant
                     THEN [crate_name |-> IF package(dep) # None THEN Unwrap(package(dep))
                                          ELSE key,
                           targets |-> EmptyMap]
                     ELSE st.deps[key]
            tk == [kind |-> dep_kind, target |-> only_for_target]
            entry2 == IF tk \in DOMAIN entry.targets THEN entry
                      ELSE [entry EXCEPT !.targets = Put(@, tk, dep)]
            deps2 == Put(st.deps, key, entry2)
        IN  IF is_optional /\ key \notin DOMAIN st.features
            THEN [features |-> Put(st.features, key,
                      [key |-> key,
                       enables_features |-> {},
                       enables_deps |-> Put(EmptyMap, key,
                           [is_dep_only |-> FALSE, is_conditional |-> FALSE,
                            dep_features |-> {}]),
                       explicit |-> FALSE,
                       enabled_by |-> {},
                       required_by_bins |-> <<>>]),
                  deps |-> deps2]
            ELSE [features |-> st.features, deps |-> deps2]

\* add_dependency that inserts the synthesized feature over a declared one
\* (features.insert in place of features.entry(key).or_insert_with).
add_dependency_replacing_declared(st, named, dep_kind, only_for_target, key, dep) ==
    LET is_optional == optional(dep)
        vacant == key \notin DOMAIN st.deps
    IN  IF ~is_optional /\ named = None /\ vacant THEN st
        ELSE
        LET entry == IF vacant
                     THEN [crate_name |-> IF package(dep) # None THEN Unwrap(package(dep))
                                          ELSE key,
                           targets |-> EmptyMap]
                     ELSE st.deps[key]
            tk == [kind |-> dep_kind, target |-> only_for_target]
            entry2 == IF tk \in DOMAIN entry.targets THEN entry
                      ELSE [entry EXCEPT !.targets = Put(@, tk, dep)]
            deps2 == Put(st.deps, key, entry2)
        IN  IF is_optional /\ named # Some(TRUE)
            THEN [features |-> Put(st.features, key,
                      [key |-> key,
                       enables_features |-> {},
                       enables_deps |-> Put(EmptyMap, key,
                           [is_dep_only |-> FALSE, is_conditional |-> FALSE,
                            dep_features |-> {}]),
                       explicit |-> FALSE,
                       enabled_by |-> {},
                       required_by_bins |-> <<>>]),
                  deps |-> deps2]
            ELSE [features |-> st.features, deps |-> deps2]

\* `st` is the pair of maps add_dependency mutates: features and deps_for_features.
add_dependency(st, named, dep_kind, only_for_target, key, dep) ==
    LET is_optional == optional(dep)
        vacant == key \notin DOMAIN st.deps
    IN  IF ~is_optional /\ named = None /\ vacant THEN st
        ELSE
        LET entry == IF vacant
                     THEN [crate_name |-> IF package(dep) # None THEN Unwrap(package(dep))
                                          ELSE key,
                           targets |-> EmptyMap]
                     ELSE st.deps[key]
            tk == [kind |-> dep_kind, target |-> only_for_target]
            entry2 == IF tk \in DOMAIN entry.targets THEN entry
                      ELSE [entry EXCEPT !.targets = Put(@, tk, dep)]
            deps2 == Put(st.deps, key, entry2)
        IN  IF is_optional /\ named # Some(TRUE)
                /\ key \notin DOMAIN st.features
            THEN [features |-> Put(st.features, key,
                      [key |-> key,
                       enables_features |-> {},
                       enables_deps |-> Put(EmptyMap, key,
                           [is_dep_only |-> FALSE, is_conditional |-> FALSE,
                            dep_features |-> {}]),
                       explicit |-> FALSE,
                       enabled_by |-> {},
                       required_by_bins |-> <<>>]),
                  deps |-> deps2]
            ELSE [features |-> st.features, deps |-> deps2]

\* The map of named_using_dep_syntax, read the way its callers do: .get(key).copied()
named_using_dep_syntax(fs, key) ==
    LET users == {f \in DOMAIN fs : key \in DOMAIN fs[f].enables_deps}
    IN  IF key \notin DOMAIN fs /\ users = {} THEN None
        ELSE Some(\E f \in users : fs[f].enables_deps[key].is_dep_only)

RECURSIVE add_keys(_, _, _, _, _, _)
add_keys(st, crate_deps, keys, named, dep_kind, only_for_target) ==
    IF keys = <<>> THEN st
    ELSE add_keys(add_dependency(st, named[Head(keys)], dep_kind, only_for_target,
                                 Head(keys), crate_deps[Head(keys)]),
                  crate_deps, Tail(keys), named, dep_kind, only_for_target)

\* `named` is the map computed once from the features as they were before any
\* dependency was added.
add_implied_optional_deps(st, crate_deps, named, dep_kind, only_for_target) ==
    add_keys(st, crate_deps, Take(Sorted(DOMAIN crate_deps), MAX_ITEMS), named,
             dep_kind, only_for_target)

RECURSIVE add_targets(_, _, _, _, _)
add_targets(st, target, cfgs, named, dev) ==
    IF cfgs = <<>> THEN st
    ELSE LET t == target[Head(cfgs)]
             cfg == Some(Head(cfgs))
             next == IF dev
                     THEN add_implied_optional_deps(st, t.dev_dependencies, named, "Dev", cfg)
                     ELSE add_implied_optional_deps(
                              add_implied_optional_deps(st, t.dependencies, named,
                                                        "Normal", cfg),
                              t.build_dependencies, named, "Build", cfg)
         IN add_targets(next, target, Tail(cfgs), named, dev)

AllDepKeys(m) ==
    DOMAIN m.dependencies \cup DOMAIN m.build_dependencies \cup DOMAIN m.dev_dependencies
    \cup UNION {DOMAIN m.target[c].dependencies \cup DOMAIN m.target[c].build_dependencies
                \cup DOMAIN m.target[c].dev_dependencies : c \in DOMAIN m.target}

add_dependencies(fs, m) ==
    LET named == [k \in AllDepKeys(m) |-> named_using_dep_syntax(fs, k)]
        cfgs == Sorted(DOMAIN m.target)
        s0 == [features |-> fs, deps |-> EmptyMap]
        s1 == add_implied_optional_deps(s0, m.dependencies, named, "Normal", None)
        s2 == add_implied_optional_deps(s1, m.build_dependencies, named, "Build", None)
        s3 == add_targets(s2, m.target, cfgs, named, FALSE)
        s4 == add_implied_optional_deps(s3, m.dev_dependencies, named, "Dev", None)
    IN  add_targets(s4, m.target, cfgs, named, TRUE)

RECURSIVE push_required(_, _, _)
push_required(fs, required_features, bin_name) ==
    IF required_features = <<>> THEN fs
    ELSE LET f == Head(required_features)
             fs2 == IF f \in DOMAIN fs
                    THEN [fs EXCEPT ![f].required_by_bins = Append(@, bin_name)]
                    ELSE fs
         IN push_required(fs2, Tail(required_features), bin_name)

\* set_required_by_bins with every binary named after the package.
RECURSIVE set_required_by_bins_by_package(_, _, _)
set_required_by_bins_by_package(fs, bin, package_name) ==
    IF bin = <<>> THEN fs
    ELSE LET b == Head(bin)
             bin_name == package_name
         IN set_required_by_bins_by_package(
                push_required(fs, b.required_features, bin_name),
                Tail(bin), package_name)

RECURSIVE set_required_by_bins(_, _, _)
set_required_by_bins(fs, bin, package_name) ==
    IF bin = <<>> THEN fs
    ELSE LET b == Head(bin)
             bin_name == IF b.name # None THEN Unwrap(b.name) ELSE package_name
         IN set_required_by_bins(push_required(fs, b.required_features, bin_name),
                                 Tail(bin), package_name)

\* remove_redundant_dep_action_features that drops "default" whatever the
\* dependency's default_features.
remove_redundant_dropping_default(fs, deps) ==
    LET prune(dep_key, action) ==
            IF action.dep_features = {} \/ dep_key \notin DOMAIN deps THEN action
            ELSE LET d == dependency_detail(Unwrap(detail(deps[dep_key])).dep)
                 IN  IF d = None THEN action
                     ELSE [action EXCEPT !.dep_features =
                              {dep_f \in @ :
                                  /\ dep_f # DEFAULT
                                  /\ dep_f \notin Range(Unwrap(d).features)}]
    IN  [k \in DOMAIN fs |->
            [fs[k] EXCEPT !.enables_deps =
                [dk \in DOMAIN @ |-> prune(dk, @[dk])]]]

remove_redundant_dep_action_features(fs, deps) ==
    LET prune(dep_key, action) ==
            IF action.dep_features = {} \/ dep_key \notin DOMAIN deps THEN action
            ELSE LET d == dependency_detail(Unwrap(detail(deps[dep_key])).dep)
                 IN  IF d = None THEN action
                     ELSE [action EXCEPT !.dep_features =
                              {dep_f \in @ :
                                  /\ ~Unwrap(d).default_features \/ dep_f # DEFAULT
                                  /\ dep_f \notin Range(Unwrap(d).features)}]
    IN  [k \in DOMAIN fs |->
            [fs[k] EXCEPT !.enables_deps =
                [dk \in DOMAIN @ |-> prune(dk, @[dk])]]]

-----------------------------------------------------------------------------
(* Graph linker                                                            *)

set_enabled_by(fs) ==
    LET all_enabled_by(action_key) ==
            {feature_key \in DOMAIN fs :
                /\ action_key # feature_key
                /\ \/ action_key \in fs[feature_key].enables_features
                   \/ /\ action_key \in DOMAIN fs[feature_key].enables_deps
                      /\ ~fs[feature_key].enables_deps[action_key].is_conditional
                      /\ ~fs[feature_key].enables_deps[action_key].is_dep_only}
    IN  [k \in DOMAIN fs |->
            IF all_enabled_by(k) # {} THEN [fs[k] EXCEPT !.enabled_by = all_enabled_by(k)]
            ELSE fs[k]]

-----------------------------------------------------------------------------
(* Hidden-node inliner                                                     *)

\* merge_dep_action that keeps the parent's is_conditional.
merge_dep_action_keeping_conditional(old, ja) ==
    [is_conditional |-> old.is_conditional,
     is_dep_only |-> IF ja.is_dep_only THEN TRUE ELSE old.is_dep_only,
     dep_features |-> old.dep_features \cup ja.dep_features]

\* The DepAction merge of the and_modify closure.
merge_dep_action(old, ja) ==
    [is_conditional |-> IF ~ja.is_conditional THEN FALSE ELSE old.is_conditional,
     is_dep_only |-> IF ja.is_dep_only THEN TRUE ELSE old.is_dep_only,
     dep_features |-> old.dep_features \cup ja.dep_features]

\* inline_into_parent without parent.enables_features.remove(janky.key).
inline_into_parent_keeping_key(parent, janky) ==
    [parent EXCEPT
        !.enabled_by = @ \ {janky.key},
        !.enables_features = @ \cup janky.enables_features,
        !.enables_deps =
            [k \in DOMAIN @ \cup DOMAIN janky.enables_deps |->
                IF k \notin DOMAIN janky.enables_deps THEN @[k]
                ELSE IF k \in DOMAIN @ THEN merge_dep_action(@[k], janky.enables_deps[k])
                ELSE janky.enables_deps[k]]]

\* The body of the loop over janky.enabled_by, for one parent.
inline_into_parent(parent, janky) ==
    [parent EXCEPT
        !.enabled_by = @ \ {janky.key},
        !.enables_features = (@ \cup janky.enables_features) \ {janky.key},
        !.enables_deps =
            [k \in DOMAIN @ \cup DOMAIN janky.enables_deps |->
                IF k \notin DOMAIN janky.enables_deps THEN @[k]
                ELSE IF k \in DOMAIN @ THEN merge_dep_action(@[k], janky.enables_deps[k])
                ELSE janky.enables_deps[k]]]

\* push_bins without the test `!child.required_by_bins.contains(&bin)`.
RECURSIVE push_bins_again(_, _)
push_bins_again(required_by_bins, bins) ==
    IF bins = <<>> THEN required_by_bins
    ELSE push_bins_again(Append(required_by_bins, Head(bins)), Tail(bins))

RECURSIVE push_bins(_, _)
push_bins(required_by_bins, bins) ==
    IF bins = <<>> THEN required_by_bins
    ELSE push_bins(IF Head(bins) \in Range(required_by_bins) THEN required_by_bins
                   ELSE Append(required_by_bins, Head(bins)),
                   Tail(bins))

\* inherit_into_child without child.enabled_by.extend(&janky.enabled_by).
inherit_into_child_without_parents(child, janky) ==
    [child EXCEPT
        !.enabled_by = @ \ {janky.key},
        !.required_by_bins = push_bins(@, Take(janky.required_by_bins, 10))]

\* The body of the loop over janky.enables_features, for one child.
inherit_into_child(child, janky) ==
    [child EXCEPT
        !.enabled_by = (@ \cup janky.enabled_by) \ {janky.key},
        !.required_by_bins = push_bins(@, Take(janky.required_by_bins, 10))]

\* The filter of the loop over janky.enables_deps.
propagates_to_dep(janky, k) ==
    /\ k \in DOMAIN janky.enables_deps
    /\ ~janky.enables_deps[k].is_dep_only
    /\ k \notin janky.enables_features

\* The body of the loop over janky.enables_deps, for one feature named like a dependency.
inherit_into_dep(d, janky) ==
    [d EXCEPT !.enabled_by = (@ \cup janky.enabled_by) \ {janky.key}]

\* One iteration of features_to_remove.into_iter().for_each: `st` is the pair
\* (features, removed_mapping).  Each of the three loops changes only the feature
\* it looks up, so each is one pass over the map.
remove_hidden_feature(st, key) ==
    IF key \notin DOMAIN st.features THEN st
    ELSE
    LET janky == st.features[key]
        f0 == Remove(st.features, key)
        f1 == [k \in DOMAIN f0 |->
                  IF k \in janky.enabled_by THEN inline_into_parent(f0[k], janky)
                  ELSE f0[k]]
        f2 == [k \in DOMAIN f1 |->
                  IF k \in janky.enables_features THEN inherit_into_child(f1[k], janky)
                  ELSE f1[k]]
        f3 == [k \in DOMAIN f2 |->
                  IF propagates_to_dep(janky, k) THEN inherit_into_dep(f2[k], janky)
                  ELSE f2[k]]
        before == IF janky.key \in DOMAIN st.removed_mapping
                  THEN st.removed_mapping[janky.key] ELSE {}
    IN  [features |-> f3,
         removed_mapping |-> Put(st.removed_mapping, janky.key,
                                 before \cup janky.enables_features)]

RECURSIVE remove_each(_, _)
remove_each(st, keys) ==
    IF keys = <<>> THEN st
    ELSE remove_each(remove_hidden_feature(st, Head(keys)), Tail(keys))

\* cb(k) of always_keep.map_or(false, |cb| (cb)(k))
keeps(keep, k) == keep # None /\ k \in Unwrap(keep)

\* features_to_remove without the filter.
features_to_remove_ignoring_keep(keep, fs) ==
    {k \in DOMAIN fs : starts_with_underscore(k)}

features_to_remove(keep, fs) ==
    {k \in DOMAIN fs : starts_with_underscore(k) /\ ~keeps(keep, k)}

remove_hidden_features(keep, fs) ==
    remove_each([features |-> fs, removed_mapping |-> EmptyMap],
                Sorted(features_to_remove(keep, fs)))

-----------------------------------------------------------------------------
(* The two entry points                                                    *)

\* The tail both entry points share.
finish(keep, parsed, fs, deps) ==
    LET pruned == remove_redundant_dep_action_features(fs, deps)
        linked == set_enabled_by(pruned)
        inlined == remove_hidden_features(keep, linked)
    IN  [features |-> inlined.features,
         linked |-> linked,
         parsed |-> parsed,
         dependencies |-> deps,
         removed_hidden_features |-> DOMAIN inlined.removed_mapping # {},
         hidden_features |-> inlined.removed_mapping]

\* Resolver::parse, for a manifest that has a package section.
parse(keep, m) ==
    LET parsed == parse_features(m.features,
                      Range(Take(Sorted(DOMAIN m.features), MAX_ITEMS)),
                      DEFAULT \in DOMAIN m.features)
        added == add_dependencies(parsed, m)
        with_bins == set_required_by_bins(added.features, m.bin, Unwrap(m.package).name)
    IN  finish(keep, parsed, with_bins, added.deps)

RECURSIVE add_stream(_, _, _)
add_stream(st, named_fs, deps) ==
    IF deps = <<>> THEN st
    ELSE LET dep == Head(deps)
         IN add_stream(add_dependency(st, named_using_dep_syntax(named_fs, dep.key),
                                      dep.kind, dep.target, dep.key, dep.dep),
                       named_fs, Tail(deps))

\* Resolver::parse_custom.  `taken` is the set of keys that the iterator of the
\* hash map manifest_features yields before .take(MAX_ITEMS) cuts it off.
parse_custom(keep, manifest_features, taken, deps) ==
    LET parsed == parse_features(manifest_features, taken,
                                 DEFAULT \in DOMAIN manifest_features)
        added == add_stream([features |-> parsed, deps |-> EmptyMap], parsed, deps)
    IN  finish(keep, parsed, added.features, added.deps)

-----------------------------------------------------------------------------
(* Inputs                                                                  *)

A == <<"a">>
B == <<"b">>
H == <<"_", "h">>
I == <<"_", "i">>
K == <<"k">>
X == <<"x">>
Y == <<"y">>

\* The total number of action strings in the features section.
MaxActions == 3

RECURSIVE SubsetsUpTo(_, _)
SubsetsUpTo(S, n) ==
    IF n = 0 THEN {{}}
    ELSE LET prev == SubsetsUpTo(S, n - 1)
         IN prev \cup {T \cup {x} : T \in prev, x \in S}

NoDeps == EmptyMap

OptionalDep ==
    [tag |-> "Detailed", optional |-> TRUE, default_features |-> TRUE,
     features |-> <<>>, package |-> None]

Package == Some([name |-> <<"p">>])

ManifestOf(section, deps) ==
    [features |-> section, dependencies |-> deps, build_dependencies |-> NoDeps,
     dev_dependencies |-> NoDeps, target |-> EmptyMap, bin |-> <<>>,
     package |-> Package]

\* Features a, b, _h, _i; actions: the plain names, and the dependency forms on b and _i.
FeatKeys == {A, B, H, I}

DepForms(t) == {t \o <<"/">> \o X, <<"dep:">> \o t, t \o <<"?", "/">> \o X}

ActionStrs == FeatKeys \cup DepForms(B) \cup DepForms(I)

SectionOf(declared, pairs) ==
    [k \in declared |-> Sorted({p[2] : p \in {q \in pairs : q[1] = k}})]

PairSets == SubsetsUpTo(FeatKeys \X ActionStrs, MaxActions)

DepSections == {NoDeps, Put(EmptyMap, B, OptionalDep), Put(EmptyMap, I, OptionalDep)}

\* The dependency declarations of a manifest, as parse_custom takes them.
Declarations(m) ==
    {[key |-> k, kind |-> "Normal", target |-> None, dep |-> m.dependencies[k]] :
        k \in DOMAIN m.dependencies}
    \cup {[key |-> k, kind |-> "Build", target |-> None, dep |-> m.build_dependencies[k]] :
        k \in DOMAIN m.build_dependencies}
    \cup {[key |-> k, kind |-> "Dev", target |-> None, dep |-> m.dev_dependencies[k]] :
        k \in DOMAIN m.dev_dependencies}
    \cup UNION {
        {[key |-> k, kind |-> "Normal", target |-> Some(c), dep |-> m.target[c].dependencies[k]] :
            k \in DOMAIN m.target[c].dependencies}
        \cup {[key |-> k, kind |-> "Build", target |-> Some(c),
               dep |-> m.target[c].build_dependencies[k]] :
            k \in DOMAIN m.target[c].build_dependencies}
        \cup {[key |-> k, kind |-> "Dev", target |-> Some(c),
               dep |-> m.target[c].dev_dependencies[k]] :
            k \in DOMAIN m.target[c].dev_dependencies} : c \in DOMAIN m.target}

\* Every order of a finite set.
RECURSIVE Orders(_)
Orders(S) ==
    IF S = {} THEN {<<>>}
    ELSE UNION {{<<x>> \o o : o \in Orders(S \ {x})} : x \in S}

-----------------------------------------------------------------------------
(* The state machine                                                       *)

NoWalk == [status |-> "idle"]

Start(m, keep) ==
    /\ manifest = m
    /\ always_keep = keep
    /\ pc = "input"
    /\ via = "none"
    /\ features = EmptyMap
    /\ dependencies = EmptyMap
    /\ hidden_features = EmptyMap
    /\ removed_hidden_features = FALSE
    /\ linked_features = EmptyMap
    /\ parsed_features = EmptyMap
    /\ walk = NoWalk

\* Every features section over FeatKeys with at most MaxActions action strings, with
\* no dependency or one optional dependency; Resolver::new().
Init ==
    \E declared \in SUBSET FeatKeys, pairs \in PairSets, deps \in DepSections :
        /\ {p[1] : p \in pairs} \subseteq declared
        /\ Start(ManifestOf(SectionOf(declared, pairs), deps), None)

Return(r, entry) ==
    /\ pc' = "parsed"
    /\ via' = entry
    /\ features' = r.features
    /\ dependencies' = r.dependencies
    /\ hidden_features' = r.hidden_features
    /\ removed_hidden_features' = r.removed_hidden_features
    /\ linked_features' = r.linked
    /\ parsed_features' = r.parsed
    /\ UNCHANGED <<manifest, always_keep, walk>>

\* Resolver::parse.  manifest.package() panics when there is no package section.
Parse ==
    /\ pc = "input"
    /\ IF manifest.package = None
       THEN /\ pc' = "panicked"
            /\ via' = "parse"
            /\ UNCHANGED <<manifest, always_keep, features, dependencies,
                           hidden_features, removed_hidden_features, linked_features,
                           parsed_features, walk>>
       ELSE Return(parse(always_keep, manifest), "parse")

\* Resolver::parse_custom on the features section of the manifest as a hash map
\* and on its dependency declarations in any order.
ParseCustom ==
    /\ pc = "input"
    /\ \E taken \in SUBSET DOMAIN manifest.features, deps \in Orders(Declarations(manifest)) :
        /\ Cardinality(taken) = IF Cardinality(DOMAIN manifest.features) < MAX_ITEMS
                                THEN Cardinality(DOMAIN manifest.features) ELSE MAX_ITEMS
        /\ Return(parse_custom(always_keep, manifest.features, taken, deps), "parse_custom")

Next == Parse \/ ParseCustom

Spec == Init /\ [][Next]_vars

-----------------------------------------------------------------------------
(* Closure computer: Feature::enables_recursive, one step per action.      *)
(* walk.stack holds one frame per active call of add_to_set: the feature   *)
(* and what is left of its loop over enables_features.  walk.discovered    *)
(* lists the keys in the order in which they were inserted in features_set.*)

\* add_to_set that inserts the features it is about to visit in features_set
\* together with the feature itself, so that none of them is expanded.
add_to_set_marking_children(w, key) ==
    IF key \in w.features_set THEN w
    ELSE LET self == features[key]
             pushed == {dep_key \in DOMAIN self.enables_deps :
                           ~self.enables_deps[dep_key].is_conditional}
         IN [w EXCEPT
                !.features_set = @ \cup {key} \cup (self.enables_features \cap DOMAIN features),
                !.discovered = Append(@, key),
                !.deps_set = [d \in DOMAIN @ \cup pushed |->
                                 IF d \notin pushed THEN @[d]
                                 ELSE Append(IF d \in DOMAIN @ THEN @[d] ELSE <<>>,
                                             <<self.key, self.enables_deps[d]>>)],
                !.stack = Append(@, [key |-> key,
                                     todo |-> Sorted(self.enables_features)])]

\* add_to_set without the test of action.is_conditional.
add_to_set_any_action(w, key) ==
    IF key \in w.features_set THEN w
    ELSE LET self == features[key]
             pushed == DOMAIN self.enables_deps
         IN [w EXCEPT
                !.features_set = @ \cup {key},
                !.discovered = Append(@, key),
                !.deps_set = [d \in DOMAIN @ \cup pushed |->
                                 IF d \notin pushed THEN @[d]
                                 ELSE Append(IF d \in DOMAIN @ THEN @[d] ELSE <<>>,
                                             <<self.key, self.enables_deps[d]>>)],
                !.stack = Append(@, [key |-> key,
                                     todo |-> Sorted(self.enables_features)])]

\* A call of add_to_set on the feature `key` of the map.
add_to_set(w, key) ==
    IF key \in w.features_set THEN w
    ELSE LET self == features[key]
             pushed == {dep_key \in DOMAIN self.enables_deps :
                           ~self.enables_deps[dep_key].is_conditional}
         IN [w EXCEPT
                !.features_set = @ \cup {key},
                !.discovered = Append(@, key),
                !.deps_set = [d \in DOMAIN @ \cup pushed |->
                                 IF d \notin pushed THEN @[d]
                                 ELSE Append(IF d \in DOMAIN @ THEN @[d] ELSE <<>>,
                                             <<self.key, self.enables_deps[d]>>)],
                !.stack = Append(@, [key |-> key,
                                     todo |-> Sorted(self.enables_features)])]

EnablesRecursive ==
    /\ pc = "parsed"
    /\ walk.status = "idle"
    /\ \E start \in DOMAIN features :
         walk' = add_to_set([status |-> "walking", start |-> start, stack |-> <<>>,
                             features_set |-> {}, discovered |-> <<>>,
                             deps_set |-> EmptyMap], start)
    /\ UNCHANGED <<manifest, always_keep, pc, via, features, dependencies,
                   hidden_features, removed_hidden_features, linked_features,
                   parsed_features>>

\* The next iteration of `for &key in &self.enables_features` in the innermost call.
AddToSetNext ==
    /\ walk.status = "walking"
    /\ walk.stack # <<>>
    /\ LET top == Len(walk.stack)
           frame == walk.stack[top]
       IN /\ frame.todo # <<>>
          /\ LET popped == [walk EXCEPT !.stack[top].todo = Tail(@)]
             IN walk' = IF Head(frame.todo) \in DOMAIN features
                        THEN add_to_set(popped, Head(frame.todo))
                        ELSE popped
    /\ UNCHANGED <<manifest, always_keep, pc, via, features, dependencies,
                   hidden_features, removed_hidden_features, linked_features,
                   parsed_features>>

\* The innermost call of add_to_set returns; enables_recursive returns with the last.
AddToSetReturn ==
    /\ walk.status = "walking"
    /\ walk.stack # <<>>
    /\ LET top == Len(walk.stack)
       IN /\ walk.stack[top].todo = <<>>
          /\ walk' = [walk EXCEPT !.stack = SubSeq(@, 1, top - 1),
                                  !.status = IF top = 1 THEN "done" ELSE @]
    /\ UNCHANGED <<manifest, always_keep, pc, via, features, dependencies,
                   hidden_features, removed_hidden_features, linked_features,
                   parsed_features>>

C == <<"c">>

\* The total number of action strings in the features section of a closure input.
MaxWalkActions == 3

WalkKeys == {A, B, C}

WalkActionStrs == WalkKeys \cup {K} \cup DepForms(K)

WalkPairSets == SubsetsUpTo(WalkKeys \X WalkActionStrs, MaxWalkActions)

\* Features a, b, c, all declared, with plain edges among them and to k, and the
\* dependency forms on k; k is no dependency or an optional one.
InitWalk ==
    \E pairs \in WalkPairSets, deps \in {NoDeps, Put(EmptyMap, K, OptionalDep)} :
        Start(ManifestOf(SectionOf(WalkKeys, pairs), deps), None)

NextWalk == Next \/ EnablesRecursive \/ AddToSetNext \/ AddToSetReturn

\* A call that has started keeps running until it returns.
SpecWalk == InitWalk /\ [][NextWalk]_vars /\ WF_vars(AddToSetNext \/ AddToSetReturn)

-----------------------------------------------------------------------------
(* Parser inputs: long action lists and many features                      *)

\* The length of the action list of one feature; larger than MAX_ITEMS.
MaxListLen == 5

\* format!("{dep:}{target}{?}{/sub}"): the action string with the given markers.
ActionString(dep_prefix, target, conditional, sub) ==
    (IF dep_prefix THEN <<"dep:">> ELSE <<>>) \o target
    \o (IF conditional THEN <<"?">> ELSE <<>>)
    \o (IF sub = None THEN <<>> ELSE <<"/">> \o Unwrap(sub))

ListActionStrs ==
    {ActionString(FALSE, K, FALSE, Some(X)), ActionString(FALSE, K, TRUE, Some(Y)),
     ActionString(TRUE, K, TRUE, None), ActionString(TRUE, K, FALSE, None),
     ActionString(FALSE, B, FALSE, Some(X))}

RECURSIVE SeqsUpTo(_, _)
SeqsUpTo(S, n) ==
    IF n = 0 THEN {<<>>}
    ELSE LET prev == SeqsUpTo(S, n - 1)
         IN prev \cup {Append(l, x) : l \in prev, x \in S}

ManyKeys == FeatKeys \cup {DEFAULT}

\* Either the one feature a with any list of at most MaxListLen of the action
\* strings above, or any features among a, b, _h, _i, default, with at most one
\* plain edge in all.
InitParser ==
    \/ \E actions \in SeqsUpTo(ListActionStrs, MaxListLen) :
          Start(ManifestOf(Put(EmptyMap, A, actions), NoDeps), None)
    \/ \E declared \in SUBSET ManyKeys, pairs \in SubsetsUpTo(ManyKeys \X FeatKeys, 1) :
          /\ {p[1] : p \in pairs} \subseteq declared
          /\ Start(ManifestOf(SectionOf(declared, pairs), NoDeps), None)

SpecParser == InitParser /\ [][Next]_vars

-----------------------------------------------------------------------------
(* Parser inputs: every form of one action string                          *)

\* Every combination of `dep:`, `?` and `/x` on the targets k and b.
ActionForms ==
    {ActionString(dep_prefix, target, conditional, sub) :
        dep_prefix \in BOOLEAN, target \in {K, B}, conditional \in BOOLEAN,
        sub \in {None, Some(X)}}

\* The length of the action list of the feature.
MaxForms == 2

\* The one feature a with at most MaxForms action strings of any form.
InitAction ==
    \E actions \in SeqsUpTo(ActionForms, MaxForms) :
        Start(ManifestOf(Put(EmptyMap, A, actions), NoDeps), None)

SpecAction == InitAction /\ [][Next]_vars

-----------------------------------------------------------------------------
(* Dependency inputs: every section, binaries, manifests without a package *)

SimpleDep == [tag |-> "Simple"]

InheritedOptionalDep ==
    [tag |-> "Inherited", optional |-> TRUE, features |-> <<>>, workspace |-> TRUE]

DepValues == {SimpleDep, OptionalDep}

\* The key of a [target.'c'] table.
CFG == <<"c">>

\* The number of dependency declarations of a manifest, all sections together.
MaxDeclarations == 2

\* The total number of action strings in the features section of such a manifest.
MaxDepActions == 2

DepKeys == {K, I}

AllDeclarations ==
    [key : DepKeys, kind : {"Normal", "Build", "Dev"}, target : {None, Some(CFG)},
     dep : DepValues]

\* A section holds one value per key.
DeclarationSets ==
    {ds \in SubsetsUpTo(AllDeclarations, MaxDeclarations) :
        \A d \in ds, e \in ds :
            (d.key = e.key /\ d.kind = e.kind /\ d.target = e.target) => d = e}

\* The DepsSet of one section.
SectionDeps(ds, kind, target) ==
    LET here == {d \in ds : d.kind = kind /\ d.target = target}
    IN  [k \in {d.key : d \in here} |-> (CHOOSE d \in here : d.key = k).dep]

TargetOf(ds, cfg) ==
    [dependencies |-> SectionDeps(ds, "Normal", Some(cfg)),
     dev_dependencies |-> SectionDeps(ds, "Dev", Some(cfg)),
     build_dependencies |-> SectionDeps(ds, "Build", Some(cfg))]

ManifestWith(section, ds, bin, pkg) ==
    [features |-> section,
     dependencies |-> SectionDeps(ds, "Normal", None),
     build_dependencies |-> SectionDeps(ds, "Build", None),
     dev_dependencies |-> SectionDeps(ds, "Dev", None),
     target |-> [c \in {Unwrap(d.target) : d \in {e \in ds : e.target # None}} |->
                    TargetOf(ds, c)],
     bin |-> bin,
     package |-> pkg]

DepFeatKeys == {A, K, H}

\* k, k/x, dep:k and the hidden _h.
DepActionStrs ==
    {K, ActionString(FALSE, K, FALSE, Some(X)), ActionString(TRUE, K, FALSE, None), H}

DepPairSets == SubsetsUpTo(DepFeatKeys \X DepActionStrs, MaxDepActions)

\* [[bin]] tables: the unnamed binary and the binary b.
Products ==
    {[name |-> None, required_features |-> <<A, H>>],
     [name |-> Some(B), required_features |-> <<A>>],
     [name |-> Some(B), required_features |-> <<K, Y>>]}

\* The number of [[bin]] tables.
MaxBins == 2

\* More keys than MAX_ITEMS, as feature names and as dependency names.
OverKeys == {A, B, C, K, Y}

OptionalDeps(keys, kind, target) ==
    {[key |-> k, kind |-> kind, target |-> target, dep |-> OptionalDep] : k \in keys}

\* Features a, k, _h with at most MaxDepActions action strings and at most
\* MaxDeclarations dependencies k, _i in any section, in a package without binaries.
InitSections ==
    \E declared \in SUBSET DepFeatKeys, pairs \in DepPairSets, ds \in DeclarationSets :
        /\ {p[1] : p \in pairs} \subseteq declared
        /\ Start(ManifestWith(SectionOf(declared, pairs), ds, <<>>, Package), None)

\* At most MaxBins binaries, with or without a package section; no dependency,
\* the optional k, k still to inherit from the workspace, or a dependency
\* named default, optional or not; at most one action
\* string in all: a plain edge, or /x with an empty target.
InitBins ==
    \E declared \in SUBSET DepFeatKeys,
       pairs \in SubsetsUpTo(
           DepFeatKeys \X {A, H, ActionString(FALSE, <<>>, FALSE, Some(X))}, 1),
       bin \in SeqsUpTo(Products, MaxBins), pkg \in {None, Package},
       ds \in {{}, OptionalDeps({K}, "Normal", None),
               OptionalDeps({DEFAULT}, "Normal", None),
               {[key |-> K, kind |-> "Normal", target |-> None,
                 dep |-> InheritedOptionalDep]},
               {[key |-> DEFAULT, kind |-> "Normal", target |-> None,
                 dep |-> SimpleDep]}} :
        /\ {p[1] : p \in pairs} \subseteq declared
        /\ Start(ManifestWith(SectionOf(declared, pairs), ds, bin, pkg), None)

\* Any of the OverKeys as features without actions, and any of them as optional
\* dependencies of one section.
InitOverCap ==
    \E declared \in SUBSET OverKeys, keys \in SUBSET OverKeys,
       kind \in {"Normal", "Dev"}, target \in {None, Some(CFG)} :
        Start(ManifestWith(SectionOf(declared, {}), OptionalDeps(keys, kind, target),
                           <<>>, Package), None)

InitDeps == InitSections \/ InitBins \/ InitOverCap

SpecDeps == InitDeps /\ [][Next]_vars

-----------------------------------------------------------------------------
(* Resolving the same input a second time                                  *)

\* Resolver::parse called again on the manifest.
ParseAgain ==
    /\ pc = "parsed"
    /\ via = "parse"
    /\ Return(parse(always_keep, manifest), "parse")

\* Resolver::parse_custom called again on an equal map of features and the same
\* stream of dependencies.  The order of the first stream is not kept in the state,
\* so the second call is taken when the stream has one order only.  An equal hash
\* map need not iterate in the same order: `taken` is chosen anew.
ParseCustomAgain ==
    /\ pc = "parsed"
    /\ via = "parse_custom"
    /\ Cardinality(Declarations(manifest)) <= 1
    /\ \E taken \in SUBSET DOMAIN manifest.features, deps \in Orders(Declarations(manifest)) :
        /\ Cardinality(taken) = IF Cardinality(DOMAIN manifest.features) < MAX_ITEMS
                                THEN Cardinality(DOMAIN manifest.features) ELSE MAX_ITEMS
        /\ Return(parse_custom(always_keep, manifest.features, taken, deps), "parse_custom")

NextTwice == Next \/ ParseAgain \/ ParseCustomAgain

\* Any of the OverKeys as features without actions, and at most one of them as an
\* optional dependency.
InitTwice ==
    \E declared \in SUBSET OverKeys, keys \in SubsetsUpTo(OverKeys, 1),
       kind \in {"Normal", "Dev"}, target \in {None, Some(CFG)} :
        Start(ManifestWith(SectionOf(declared, {}), OptionalDeps(keys, kind, target),
                           <<>>, Package), None)

SpecTwice == InitTwice /\ [][NextTwice]_vars

-----------------------------------------------------------------------------
(* Resolvers with a filter: Resolver::new_with_hasher_and_filter           *)

\* The number of action strings of the features section.
MaxKeepActions == 2

\* always_keep: no filter, or a filter that returns true for these keys.
Filters == {None, Some({}), Some({H}), Some({H, I})}

\* Features a, _h, _i with at most MaxKeepActions action strings: plain names,
\* or _h/x; no dependency or an optional dependency named _h or _i.
InitKeep ==
    \E declared \in SUBSET {A, H, I},
       pairs \in SubsetsUpTo({A, H, I} \X {A, H, I, ActionString(FALSE, H, FALSE, Some(X))},
                             MaxKeepActions),
       hidden_deps \in {{}, {H}, {I}}, keep \in Filters :
        /\ {p[1] : p \in pairs} \subseteq declared
        /\ Start(ManifestWith(SectionOf(declared, pairs),
                              OptionalDeps(hidden_deps, "Normal", None), <<>>, Package),
                 keep)

SpecKeep == InitKeep /\ [][Next]_vars

-----------------------------------------------------------------------------
(* Binaries that require hidden features                                   *)

\* The number of plain edges of the features section.
MaxChainActions == 3

\* [[bin]] tables: the unnamed binary and the binary b, requiring hidden features.
ChainProducts ==
    {[name |-> None, required_features |-> <<H>>],
     [name |-> Some(B), required_features |-> <<I>>],
     [name |-> Some(B), required_features |-> <<H, A>>]}

\* Features a, _h, _i with at most MaxChainActions plain edges among them, and
\* at most MaxBins binaries.
InitChain ==
    \E declared \in SUBSET {A, H, I},
       pairs \in SubsetsUpTo({A, H, I} \X {A, H, I}, MaxChainActions),
       bin \in SeqsUpTo(ChainProducts, MaxBins) :
        /\ {p[1] : p \in pairs} \subseteq declared
        /\ Start(ManifestWith(SectionOf(declared, pairs), {}, bin, Package), None)

SpecChain == InitChain /\ [][Next]_vars

-----------------------------------------------------------------------------
(* Dependencies that declare features of their own                        *)

\* `k = { version = "1", default-features = .., features = [..] }`
DetailedDep(default_features, dep_features) ==
    [tag |-> "Detailed", optional |-> FALSE, default_features |-> default_features,
     features |-> dep_features, package |-> None]

\* A version string, or a table with default-features on or off and with the
\* features list empty or ["x"].
PruneDepValues ==
    {SimpleDep}
    \cup {DetailedDep(default_features, dep_features) :
            default_features \in BOOLEAN, dep_features \in {<<>>, <<X>>}}

\* k/default, k/x, k/y with and without `dep:` and `?`.
PruneActionStrs ==
    {ActionString(dep_prefix, K, conditional, Some(sub)) :
        dep_prefix \in BOOLEAN, conditional \in BOOLEAN, sub \in {DEFAULT, X, Y}}

\* The length of the action list of the feature.
MaxPruneActions == 2

\* The feature a with at most MaxPruneActions sub-feature requests on k, and k
\* declared in [dependencies], in [dev-dependencies], in both or in neither.
InitPrune ==
    \E actions \in SeqsUpTo(PruneActionStrs, MaxPruneActions),
       normal \in SubsetsUpTo(PruneDepValues, 1), dev \in SubsetsUpTo(PruneDepValues, 1) :
        Start(ManifestWith(Put(EmptyMap, A, actions),
                           {[key |-> K, kind |-> "Normal", target |-> None, dep |-> d] :
                               d \in normal}
                           \cup {[key |-> K, kind |-> "Dev", target |-> None, dep |-> d] :
                               d \in dev},
                           <<>>, Package), None)

SpecPrune == InitPrune /\ [][Next]_vars

-----------------------------------------------------------------------------
(* Workspace inheritance: Manifest::complete_from_abstract_filesystem.     *)
(* A package field is "None" (absent), "Inherited" (`workspace = true`),   *)
(* "member" (set in the manifest) or "workspace" (copied from the          *)
(* workspace).  A manifest of this part carries its [workspace] table in   *)
(* the field `workspace`.                                                  *)

\* The fields of Package of type Inheritable<T>.
MandatoryFields ==
    {"authors", "categories", "edition", "exclude", "include", "keywords", "version",
     "publish", "readme"}

\* The fields of Package of type Option<Inheritable<T>>.
OptionalFields ==
    {"description", "documentation", "homepage", "license", "license_file",
     "repository", "rust_version"}

PackageFields == MandatoryFields \cup OptionalFields

\* Inheritable::is_set, and map_or(true, Inheritable::is_set) on an absent field.
is_set(v) == v # "Inherited"

\* Package::needs_workspace_inheritance
package_needs_workspace_inheritance(p) ==
    ~ \A f \in PackageFields : is_set(p.fields[f])

\* Manifest::needs_workspace_inheritance
needs_workspace_inheritance(m) ==
    \/ m.package # None /\ package_needs_workspace_inheritance(Unwrap(m.package))
    \/ \E section \in {m.dependencies, m.build_dependencies, m.dev_dependencies} :
            \E key \in DOMAIN section : section[key].tag = "Inherited"

\* Manifest::inherit_package_properties.  ws is the set of the fields the
\* PackageTemplate holds; publish and readme are no Option there.
inherit_package_properties(p, ws) ==
    [p EXCEPT !.fields = [f \in PackageFields |->
        IF f = "license_file"
        THEN IF @[f] # "None" /\ f \in ws THEN "workspace" ELSE @[f]
        ELSE IF @[f] = "Inherited" /\ f \in ws \cup {"publish", "readme"}
             THEN "workspace" ELSE @[f]]]

\* Dependency::try_detail_mut: the dependency made Detailed, None for the error.
try_detail_mut(dep) ==
    IF dep.tag = "Detailed" THEN Some(dep)
    ELSE IF dep.tag = "Simple"
         THEN Some([tag |-> "Detailed", optional |-> FALSE, default_features |-> TRUE,
                    features |-> <<>>, package |-> None])
         ELSE None

\* The body of the loop of inherit_dependencies for an Inherited dependency whose
\* template the workspace has.
inherit_dependency(overrides, template) ==
    LET with_optional ==
            IF overrides.optional
            THEN {[d EXCEPT !.optional = TRUE] : d \in try_detail_mut(template)}
            ELSE Some(template)
        with_features ==
            IF with_optional # None /\ overrides.features # <<>>
            THEN {[d EXCEPT !.features = @ \o overrides.features] :
                     d \in try_detail_mut(Unwrap(with_optional))}
            ELSE with_optional
    IN  IF with_features = None THEN [ok |-> FALSE, dep |-> template]
        ELSE LET dep == Unwrap(with_features)
             IN [ok |-> TRUE,
                 dep |-> IF dep.tag = "Detailed"
                         THEN [tag |-> "Detailed", optional |-> dep.optional,
                               default_features |-> dep.default_features,
                               features |-> dep.features, package |-> dep.package,
                               inherited |-> TRUE]
                         ELSE dep]

\* The loop of inherit_dependencies; r is what the body made of deps[Head(keys)],
\* and `?` leaves the loop on an error.
RECURSIVE inherit_keys(_, _, _)
inherit_next_key(deps, keys, workspace, r) ==
    IF r.ok THEN inherit_keys([deps EXCEPT ![Head(keys)] = r.dep], Tail(keys), workspace)
    ELSE [ok |-> FALSE, deps |-> [deps EXCEPT ![Head(keys)] = r.dep]]

inherit_keys(deps, keys, workspace) ==
    IF keys = <<>> THEN [ok |-> TRUE, deps |-> deps]
    ELSE LET key == Head(keys)
         IN IF deps[key].tag # "Inherited"
            THEN inherit_keys(deps, Tail(keys), workspace)
            ELSE IF workspace = None \/ key \notin DOMAIN Unwrap(workspace).dependencies
                 THEN [ok |-> FALSE, deps |-> deps]
                 ELSE inherit_next_key(deps, keys, workspace,
                          inherit_dependency(deps[key],
                                             Unwrap(workspace).dependencies[key]))

\* inherit_dependencies: ok is FALSE for Err, deps is the map as it is left.
inherit_dependencies(deps_to_inherit, workspace) ==
    inherit_keys(deps_to_inherit, Sorted(DOMAIN deps_to_inherit), workspace)

\* inherit_dependencies on the three sections of a manifest or of a target, each
\* followed by `?`.
RECURSIVE inherit_sections(_, _, _)
inherit_next_section(table, names, workspace, r) ==
    IF r.ok
    THEN inherit_sections([table EXCEPT ![Head(names)] = r.deps], Tail(names), workspace)
    ELSE [ok |-> FALSE, table |-> [table EXCEPT ![Head(names)] = r.deps]]

inherit_sections(table, names, workspace) ==
    IF names = <<>> THEN [ok |-> TRUE, table |-> table]
    ELSE inherit_next_section(table, names, workspace,
                              inherit_dependencies(table[Head(names)], workspace))

SectionNames == <<"dependencies", "build_dependencies", "dev_dependencies">>

\* The loop over self.target.values_mut().
RECURSIVE inherit_targets(_, _, _)
inherit_next_target(target, cfgs, workspace, r) ==
    IF r.ok
    THEN inherit_targets([target EXCEPT ![Head(cfgs)] = r.table], Tail(cfgs), workspace)
    ELSE [ok |-> FALSE, target |-> [target EXCEPT ![Head(cfgs)] = r.table]]

inherit_targets(target, cfgs, workspace) ==
    IF cfgs = <<>> THEN [ok |-> TRUE, target |-> target]
    ELSE inherit_next_target(target, cfgs, workspace,
                             inherit_sections(target[Head(cfgs)], SectionNames, workspace))

\* The end of _inherit_workspace, from `let package = match &mut self.package`.
inherit_package(m, workspace, inherited) ==
    IF m.package = None THEN [ok |-> TRUE, m |-> m]
    ELSE [ok |-> ~package_needs_workspace_inheritance(inherited),
          m |-> [m EXCEPT !.package = Some(inherited)]]

\* _inherit_workspace after the loop over the targets, which left `targets`.
inherit_after_targets(m, workspace, targets) ==
    IF ~targets.ok THEN [ok |-> FALSE, m |-> [m EXCEPT !.target = targets.target]]
    ELSE inherit_package([m EXCEPT !.target = targets.target], workspace,
             IF workspace # None /\ Unwrap(workspace).package # None
             THEN inherit_package_properties(Unwrap(m.package),
                                             Unwrap(Unwrap(workspace).package))
             ELSE Unwrap(m.package))

\* _inherit_workspace after the three global sections, which left `global`.
inherit_after_global(workspace, global) ==
    IF ~global.ok THEN [ok |-> FALSE, m |-> global.table]
    ELSE inherit_after_targets(global.table, workspace,
             inherit_targets(global.table.target, Sorted(DOMAIN global.table.target),
                             workspace))

\* Manifest::_inherit_workspace: ok is FALSE for Err, m is the manifest as it is
\* left.  Path::parent cannot fail on a path whose file name is Cargo.toml.
inherit_workspace(m, workspace) ==
    inherit_after_global(workspace, inherit_sections(m, SectionNames, workspace))

\* Manifest::complete_from_abstract_filesystem_inner on a directory without
\* source files and without readme (autobins is on by default): no product is
\* discovered, and autoset drops the [[bin]] tables that have no path.
\* fs.io_error is a failure of file_names_in other than NotFound.
complete_from_abstract_filesystem_inner(m, fs) ==
    IF m.package = None THEN [ok |-> TRUE, m |-> m]
    ELSE IF fs.io_error THEN [ok |-> FALSE, m |-> m]
    ELSE [ok |-> is_set(Unwrap(m.package).fields["readme"]),
          m |-> [m EXCEPT !.bin = SelectSeq(@, LAMBDA product : "path" \in DOMAIN product)]]

\* self.workspace = Some(ws), which `?` skips on an error.
restore_workspace(r, ws) ==
    IF r.ok THEN [ok |-> TRUE, m |-> [r.m EXCEPT !.workspace = ws]] ELSE r

\* The last line of complete_from_abstract_filesystem; r is what the inheritance
\* left.
complete_inner(r, fs) ==
    IF r.ok THEN complete_from_abstract_filesystem_inner(r.m, fs) ELSE r

\* Manifest::complete_from_abstract_filesystem.  workspace_manifest_and_path is
\* None or Some of the `workspace` field of the manifest passed;
\* fs.root_workspace is None for an Err of parse_root_workspace and else Some of
\* the `workspace` field of the manifest it returns.
complete_from_abstract_filesystem(m, fs, workspace_manifest_and_path) ==
    complete_inner(
        IF workspace_manifest_and_path # None
        THEN inherit_workspace(m, Unwrap(workspace_manifest_and_path))
        ELSE IF m.workspace # None
             THEN restore_workspace(
                      inherit_workspace([m EXCEPT !.workspace = None], m.workspace),
                      m.workspace)
             ELSE IF needs_workspace_inheritance(m)
                  THEN IF fs.root_workspace = None THEN [ok |-> FALSE, m |-> m]
                       ELSE inherit_workspace(m, Unwrap(fs.root_workspace))
                  ELSE [ok |-> TRUE, m |-> m],
        fs)

\* `k = { workspace = true }`
InheritedDep ==
    [tag |-> "Inherited", optional |-> FALSE, features |-> <<>>, workspace |-> TRUE]

\* [workspace.dependencies]: nothing, or k as a version, as an optional table, or
\* itself `workspace = true`.
WorkspaceDeps ==
    {EmptyMap, Put(EmptyMap, K, SimpleDep), Put(EmptyMap, K, OptionalDep),
     Put(EmptyMap, K, InheritedDep)}

\* [workspace.package]: absent, or with a version and a license-file.
Templates == {None, Some({"version", "license_file"})}

Workspaces == [dependencies : WorkspaceDeps, package : Templates]

\* A [package] with every mandatory field set and no optional field.
MemberPackage ==
    [name |-> <<"p">>,
     fields |-> [f \in PackageFields |-> IF f \in MandatoryFields THEN "member" ELSE "None"]]

\* No package, or a package with one field changed.
MemberPackages ==
    {None, Some(MemberPackage)}
    \cup {Some([MemberPackage EXCEPT !.fields[c[1]] = c[2]]) :
            c \in {<<"version", "Inherited">>, <<"license_file", "member">>}}

\* The sections a member declares k in.
MemberSections ==
    {[kind |-> "Normal", target |-> None], [kind |-> "Dev", target |-> None],
     [kind |-> "Normal", target |-> Some(CFG)]}

\* The number of sections that declare k.
MaxMemberDeclarations == 2

MemberDeclarations ==
    {[key |-> K, kind |-> s.kind, target |-> s.target, dep |-> dep] :
        s \in MemberSections, dep \in {SimpleDep, InheritedDep, InheritedOptionalDep}}

\* The filesystems: parse_root_workspace fails or returns a manifest, with or
\* without [workspace]; directory listings fail or are empty.
Filesystems ==
    [root_workspace : {None} \cup {Some(w) : w \in {None} \cup {Some(ws) : ws \in Workspaces}},
     io_error : BOOLEAN]

\* The call has returned r: Ok or Err, with the manifest as it is left.
Completed(r) ==
    /\ manifest' = r.m
    /\ pc' = IF r.ok THEN "completed" ELSE "failed"

CompleteFromAbstractFilesystem ==
    /\ pc = "input"
    /\ "workspace" \in DOMAIN manifest
    /\ \E fs \in Filesystems,
          workspace_manifest_and_path \in
              {None} \cup {Some(w) : w \in {None} \cup {Some(ws) : ws \in Workspaces}} :
        Completed(complete_from_abstract_filesystem(manifest, fs,
                                                    workspace_manifest_and_path))
    /\ UNCHANGED <<always_keep, via, features, dependencies, hidden_features,
                   removed_hidden_features, linked_features, parsed_features, walk>>

\* A member manifest that declares k in any of MemberSections, without features,
\* and that may be the workspace root itself.
InitInherit ==
    \E ds \in SubsetsUpTo(MemberDeclarations, MaxMemberDeclarations), pkg \in MemberPackages,
       workspace \in {None} \cup {Some(ws) : ws \in Workspaces} :
        /\ \A d, e \in ds : (d.kind = e.kind /\ d.target = e.target) => d = e
        /\ Start([features |-> EmptyMap,
                  dependencies |-> SectionDeps(ds, "Normal", None),
                  build_dependencies |-> SectionDeps(ds, "Build", None),
                  dev_dependencies |-> SectionDeps(ds, "Dev", None),
                  target |-> [c \in {Unwrap(d.target) : d \in {e \in ds : e.target # None}} |->
                                 TargetOf(ds, c)],
                  bin |-> <<>>,
                  package |-> pkg,
                  workspace |-> workspace], None)

NextInherit == CompleteFromAbstractFilesystem

SpecInherit == InitInherit /\ [][NextInherit]_vars

-----------------------------------------------------------------------------
(* Properties                                                              *)

Returned == pc = "parsed"

\* The hidden features the inliner removed.
RemovedKeys == DOMAIN linked_features \ DOMAIN features

\* The least set of features of the graph fs that contains `from` and every
\* feature in `allowed` that one of its members enables.
RECURSIVE Closure(_, _, _)
Closure(fs, from, allowed) ==
    LET more == from \cup (allowed \cap UNION {fs[x].enables_features : x \in from})
    IN  IF more = from THEN from ELSE Closure(fs, more, allowed)

\* The hidden features that p reaches in the graph fs along enables_features edges
\* through hidden features only.
HiddenFrom(fs, p) ==
    LET hidden == {h \in DOMAIN fs : starts_with_underscore(h)}
    IN  Closure(fs, hidden \cap fs[p].enables_features, hidden)

\* C1: every result has the key "default" in its features map.
C1_DefaultPresent == Returned => DEFAULT \in DOMAIN features

\* C2: a non-hidden feature C that a non-hidden feature P reached before inlining
\* through hidden features only is in P.enables_features after inlining, and a
\* dependency that a hidden feature on such a path enabled unconditionally is an
\* unconditional entry of P.enables_deps.
C2_ReachabilityPreserved ==
    Returned =>
        \A p \in DOMAIN linked_features :
            ~starts_with_underscore(p) =>
                /\ p \in DOMAIN features
                /\ \A h \in HiddenFrom(linked_features, p) :
                    /\ \A c \in linked_features[h].enables_features :
                           c \in DOMAIN linked_features /\ ~starts_with_underscore(c)
                               => c \in features[p].enables_features
                    /\ \A d \in DOMAIN linked_features[h].enables_deps :
                           ~linked_features[h].enables_deps[d].is_conditional
                               => /\ d \in DOMAIN features[p].enables_deps
                                  /\ ~features[p].enables_deps[d].is_conditional

\* a reaches b only through _i and then _h, and _h is removed before _i.
C2_Witness ==
    /\ Returned
    /\ {A, B, H, I} \subseteq DOMAIN linked_features
    /\ linked_features[A].enables_features = {I}
    /\ linked_features[I].enables_features = {H}
    /\ linked_features[H].enables_features = {B}
    /\ features[A].enables_features = {B}

\* C3: with no retention predicate no key of the result is hidden and no
\* enables_features names a removed hidden feature.
C3_NoHiddenFeatureEdges ==
    Returned /\ always_keep = None =>
        \A k \in DOMAIN features :
            /\ ~starts_with_underscore(k)
            /\ features[k].enables_features \cap RemovedKeys = {}

\* Two hidden features on a cycle, entered from a.
C3_Witness ==
    /\ Returned
    /\ always_keep = None
    /\ {A, H, I} \subseteq DOMAIN linked_features
    /\ H \in linked_features[A].enables_features
    /\ I \in linked_features[H].enables_features
    /\ H \in linked_features[I].enables_features
    /\ RemovedKeys = {H, I}

\* C4: no enables_deps of the result has the key of a removed hidden feature.
C4_NoHiddenDepKeys ==
    Returned =>
        \A k \in DOMAIN features : DOMAIN features[k].enables_deps \cap RemovedKeys = {}

\* C5: no enabled_by of the result names a removed hidden feature, and every
\* entry names a feature of the result.
C5_EnabledByPresent ==
    Returned =>
        \A k \in DOMAIN features :
            /\ features[k].enabled_by \cap RemovedKeys = {}
            /\ features[k].enabled_by \subseteq DOMAIN features

\* f enables g directly: a plain edge, or a dependency action on g that is
\* neither conditional nor dependency-only.
Enables(f, g) ==
    \/ g \in f.enables_features
    \/ /\ g \in DOMAIN f.enables_deps
       /\ ~f.enables_deps[g].is_conditional
       /\ ~f.enables_deps[g].is_dep_only

\* C6: in the result enabled_by is exactly the index of the forward edges.
C6_EnabledByExact ==
    Returned =>
        \A f \in DOMAIN features : \A g \in DOMAIN features :
            f # g => (f \in features[g].enabled_by <=> Enables(features[f], g))

WalkDone == walk.status = "done"

\* The features of the map fs reachable from `start` over enables_features edges.
Reachable(fs, start) == Closure(fs, {start}, DOMAIN fs)

\* C7: enables_recursive returns on every graph, and its feature set is the set
\* of features reachable from the start over enables_features edges.
C7_ClosureTerminatesExact ==
    /\ [](WalkDone => walk.features_set = Reachable(features, walk.start))
    /\ (walk.status = "walking" ~> WalkDone)

\* a enables b, b enables c, c enables a, and the call on b has returned.
C7_Witness ==
    /\ WalkDone
    /\ walk.start = B
    /\ features[A].enables_features = {B}
    /\ features[B].enables_features = {C}
    /\ features[C].enables_features = {A}
    /\ walk.features_set = {A, B, C}

Unconditional(f, d) == d \in DOMAIN f.enables_deps /\ ~f.enables_deps[d].is_conditional

\* The features of fs in depth-first pre-order from `key`, children in key order,
\* appended to the sequence `seen` of those already discovered.
RECURSIVE DepthFirst(_, _, _)
RECURSIVE DepthFirstEach(_, _, _)
DepthFirst(fs, key, seen) ==
    IF key \notin DOMAIN fs \/ key \in Range(seen) THEN seen
    ELSE DepthFirstEach(fs, Sorted(fs[key].enables_features), Append(seen, key))

DepthFirstEach(fs, keys, seen) ==
    IF keys = <<>> THEN seen
    ELSE DepthFirstEach(fs, Tail(keys), DepthFirst(fs, Head(keys), seen))

\* C8: the dependency map has an entry for d exactly when a feature of the
\* returned set acts unconditionally on d, and the entry lists those features once
\* each in depth-first discovery order, each with its action.
C8_DepsInDiscoveryOrder ==
    WalkDone =>
        LET order == DepthFirst(features, walk.start, <<>>)
            uses(d) == LET acts(f) == Unconditional(features[f], d)
                       IN  SelectSeq(order, acts)
        IN  /\ DOMAIN walk.deps_set =
                   {d \in UNION {DOMAIN features[f].enables_deps : f \in walk.features_set} :
                       \E f \in walk.features_set : Unconditional(features[f], d)}
            /\ \A d \in DOMAIN walk.deps_set :
                   walk.deps_set[d] =
                       [i \in 1..Len(uses(d)) |->
                           <<uses(d)[i], features[uses(d)[i]].enables_deps[d]>>]

\* An entry whose feature was discovered after a feature that acts on the same
\* dependency only conditionally.
C8_Witness ==
    /\ WalkDone
    /\ \E d \in DOMAIN walk.deps_set :
          /\ walk.deps_set[d][1][1] # walk.start
          /\ d \in DOMAIN features[walk.start].enables_deps
          /\ features[walk.start].enables_deps[d].is_conditional

\* C9: the feature set returned for F contains every feature that lists F in its
\* enabled_by.
C9_ClosureExhaustive ==
    WalkDone =>
        \A g \in DOMAIN features :
            walk.start \in features[g].enabled_by => g \in walk.features_set

SubOptions == {None, Some(X), Some(Y)}

\* The positions among the first n of `actions` that hold a dependency action on d
\* with the given markers.
Occurrences(actions, n, d, dep_prefixes, conditionals) ==
    {i \in 1..Len(actions) :
        /\ i <= n
        /\ \E dep_prefix \in dep_prefixes, conditional \in conditionals, sub \in SubOptions :
              /\ dep_prefix \/ sub # None
              /\ actions[i] = ActionString(dep_prefix, d, conditional, sub)}

SubFeatures(actions, n, d) ==
    {sub \in {X, Y} :
        \E i \in 1..Len(actions), dep_prefix \in BOOLEAN, conditional \in BOOLEAN :
            i <= n /\ actions[i] = ActionString(dep_prefix, d, conditional, Some(sub))}

\* The DepAction of feature k for dependency d merges the first n action strings.
MergesFirst(k, n, d) ==
    LET actions == manifest.features[k]
    IN  Occurrences(actions, n, d, BOOLEAN, BOOLEAN) # {} =>
            /\ d \in DOMAIN features[k].enables_deps
            /\ features[k].enables_deps[d].is_conditional
                   <=> Occurrences(actions, n, d, BOOLEAN, {FALSE}) = {}
            /\ features[k].enables_deps[d].is_dep_only
                   <=> Occurrences(actions, n, d, {TRUE}, BOOLEAN) # {}
            /\ features[k].enables_deps[d].dep_features = SubFeatures(actions, n, d)

\* C10 as stated: the DepAction merges all the action strings of the feature that
\* name the dependency.
C10_MergesAllOccurrences ==
    Returned =>
        \A k \in DOMAIN features \cap DOMAIN manifest.features : \A d \in {K, B} :
            MergesFirst(k, Len(manifest.features[k]), d)

\* C10 as amended: the DepAction merges the action strings that name the
\* dependency among the first MAX_ITEMS of the feature.
C10_MergesWithinCap ==
    Returned =>
        \A k \in DOMAIN features \cap DOMAIN manifest.features : \A d \in {K, B} :
            MergesFirst(k, MAX_ITEMS, d)

\* A conditional occurrence followed by an unconditional one, and a dep: occurrence
\* after one without the prefix, all within the cap.
C10_Witness ==
    /\ Returned
    /\ A \in DOMAIN features
    /\ LET actions == manifest.features[A]
       IN /\ \E i \in Occurrences(actions, MAX_ITEMS, K, BOOLEAN, {TRUE}) :
             \E j \in Occurrences(actions, MAX_ITEMS, K, BOOLEAN, {FALSE}) : i < j
          /\ \E i \in Occurrences(actions, MAX_ITEMS, K, {FALSE}, BOOLEAN) :
             \E j \in Occurrences(actions, MAX_ITEMS, K, {TRUE}, BOOLEAN) : i < j
          /\ ~features[A].enables_deps[K].is_conditional
          /\ features[A].enables_deps[K].is_dep_only

-----------------------------------------------------------------------------
(* Implied features, dependencies and binaries                             *)

\* The declared features that parse_features was given: those within the cap.
Parsed == DOMAIN parsed_features \cap DOMAIN manifest.features

\* The action string is `dep:k`, `dep:k?`, `dep:k/sub` or `dep:k?/sub`.
DepPrefixed(action, k) ==
    \E conditional \in BOOLEAN, sub \in SubOptions :
        action = ActionString(TRUE, k, conditional, sub)

\* Feature f names dependency k with `dep:` in one of the action strings that are read.
UsesDepSyntax(f, k) ==
    \E i \in 1..Len(manifest.features[f]) :
        i <= MAX_ITEMS /\ DepPrefixed(manifest.features[f][i], k)

\* C11: when a parsed feature, hidden or not, names dependency k with `dep:`, the
\* result of parse and of parse_custom has no synthesized (explicit = false)
\* feature keyed k.
C11_NoImpliedFeatureForDepSyntax ==
    Returned =>
        \A f \in Parsed : \A k \in DOMAIN features :
            UsesDepSyntax(f, k) => features[k].explicit

\* The hidden feature _h names the optional dependency k with `dep:`; k is
\* recorded as a dependency and is no feature.
C11_Witness ==
    /\ Returned
    /\ H \in Parsed
    /\ UsesDepSyntax(H, K)
    /\ K \in DOMAIN manifest.dependencies
    /\ optional(manifest.dependencies[K])
    /\ K \in DOMAIN dependencies
    /\ K \notin DOMAIN features

\* The declaration is among the first MAX_ITEMS of its section, which is all that
\* parse reads; parse_custom reads the whole stream.
WithinCap(d) ==
    \/ via = "parse_custom"
    \/ LET section == SectionDeps(Declarations(manifest), d.kind, d.target)
       IN  d.key \in Range(Take(Sorted(DOMAIN section), MAX_ITEMS))

\* The feature synthesized for the optional dependency k.
Implied(f, k) ==
    /\ ~f.explicit
    /\ f.enables_features = {}
    /\ DOMAIN f.enables_deps = {k}
    /\ f.enables_deps[k] = [is_dep_only |-> FALSE, is_conditional |-> FALSE,
                             dep_features |-> {}]

\* Feature k is what parse_features made of its declaration.
AsParsed(k) ==
    LET declared == parsed_features[k]
        f == linked_features[k]
    IN  /\ k \in DOMAIN parsed_features
        /\ f.explicit
        /\ features[k].explicit
        /\ f.enables_features = declared.enables_features
        /\ DOMAIN f.enables_deps = DOMAIN declared.enables_deps
        /\ \A dk \in DOMAIN f.enables_deps :
              /\ f.enables_deps[dk].is_dep_only = declared.enables_deps[dk].is_dep_only
              /\ f.enables_deps[dk].is_conditional
                     = declared.enables_deps[dk].is_conditional

C13_NeverPanics == pc # "panicked"

\* C14: resolving the same input a second time, with parse or with parse_custom,
\* gives the same features, dependencies and hidden_features as the first time.
C14_SameResultTwice ==
    [][(pc = "parsed" /\ pc' = "parsed") =>
          /\ features' = features
          /\ dependencies' = dependencies
          /\ hidden_features' = hidden_features]_vars

\* The dependency declarations that were processed: one per entry of `targets`.
ProcessedDeps ==
    {dt \in (DOMAIN dependencies) \X [kind : {"Normal", "Build", "Dev"},
                                       target : {None, Some(CFG)}] :
        dt[2] \in DOMAIN dependencies[dt[1]].targets}

\* C15: both entry points process at most MAX_ITEMS declared features, at most
\* MAX_ITEMS actions of a feature, and at most MAX_ITEMS dependencies of a
\* dependency section (parse) or of the supplied stream (parse_custom).
C15_EveryInputCapped ==
    Returned =>
        /\ Cardinality(Parsed) <= MAX_ITEMS
        /\ \A f \in Parsed :
              Cardinality(parsed_features[f].enables_features
                          \cup DOMAIN parsed_features[f].enables_deps) <= MAX_ITEMS
        /\ via = "parse" =>
              \A tk \in {dt[2] : dt \in ProcessedDeps} :
                  Cardinality({dt \in ProcessedDeps : dt[2] = tk}) <= MAX_ITEMS
        /\ via = "parse_custom" => Cardinality(ProcessedDeps) <= MAX_ITEMS


\* The keys declared as dependencies that are optional in no section.
NeverOptional ==
    {d.key : d \in Declarations(manifest)}
    \ {d.key : d \in {e \in Declarations(manifest) : optional(e.dep)}}

\* No feature, as parsed or as returned, has k in its enables_deps.
InNoEnablesDeps(k) ==
    /\ \A f \in DOMAIN parsed_features : k \notin DOMAIN parsed_features[f].enables_deps
    /\ \A f \in DOMAIN features : k \notin DOMAIN features[f].enables_deps

\* C16: a dependency that is optional in no section and is in no feature's
\* enables_deps is skipped: after parse or parse_custom its key is neither in
\* `dependencies` nor a key of `features`.
C16_UnaffectedDepsSkipped ==
    Returned =>
        \A k \in NeverOptional :
            InNoEnablesDeps(k) =>
                k \notin DOMAIN dependencies /\ k \notin DOMAIN features


\* C17: for every feature of the result, explicit is true exactly when its key
\* is declared in the features section of the input.
C17_ExplicitIffDeclared ==
    Returned =>
        \A f \in DOMAIN features :
            features[f].explicit <=> f \in DOMAIN manifest.features


\* The name a binary goes by: its own, or the package's.
BinName(b) == IF b.name # None THEN Unwrap(b.name) ELSE Unwrap(manifest.package).name

\* C18: after parse, every feature of the result that is not hidden and is listed
\* in a binary's required-features has that binary's name (the package name for
\* an unnamed binary) in required_by_bins, and required_by_bins holds names of
\* the manifest's binaries only; after parse_custom, required_by_bins is empty
\* for every feature.
C18_RequiredByBinsFromBinaries ==
    Returned =>
        /\ via = "parse" =>
            /\ \A i \in 1..Len(manifest.bin) :
                 \A F \in Range(manifest.bin[i].required_features) :
                    (F \in DOMAIN features /\ ~starts_with_underscore(F)) =>
                        BinName(manifest.bin[i]) \in Range(features[F].required_by_bins)
            /\ \A F \in DOMAIN features :
                 Range(features[F].required_by_bins)
                    \subseteq {BinName(b) : b \in Range(manifest.bin)}
        /\ via = "parse_custom" =>
            \A F \in DOMAIN features : features[F].required_by_bins = <<>>

\* parse has named the unnamed binary and the binary b in feature a, which both
\* require.
C18_Witness ==
    /\ Returned
    /\ via = "parse"
    /\ Len(manifest.bin) = 2
    /\ manifest.bin[1].name = None
    /\ manifest.bin[2].name = Some(B)
    /\ A \in Range(manifest.bin[1].required_features)
    /\ A \in Range(manifest.bin[2].required_features)
    /\ A \in DOMAIN features
    /\ features[A].required_by_bins = <<Unwrap(manifest.package).name, B>>


\* The dependencies of every section, the per-target ones included, that are
\* still `workspace = true`.
StillInherited == {d \in Declarations(manifest) : d.dep.tag = "Inherited"}

\* C19: a manifest for which needs_workspace_inheritance() is false has no package
\* field and no dependency of any section, per-target sections included, in the
\* Inherited state; and after complete_from_abstract_filesystem has returned Ok
\* no dependency is Inherited.
C19_UsableWithoutInheritance ==
    /\ ~needs_workspace_inheritance(manifest) =>
        /\ manifest.package # None =>
              \A f \in PackageFields : Unwrap(manifest.package).fields[f] # "Inherited"
        /\ StillInherited = {}
    /\ pc = "completed" => StillInherited = {}


\* C20: an action string whose target carries `dep:` or a trailing `?`, or that
\* has a `/sub-feature` part, is recorded as a DepAction in enables_deps under
\* the stripped target and not in enables_features (unless another string of the
\* list is the plain target); a string with no marker and no sub-feature is
\* recorded as a plain edge in enables_features.
C20_OneActionRecorded ==
    \A f \in Parsed : \A i \in 1..Len(manifest.features[f]) :
        i <= MAX_ITEMS =>
            \A dep_prefix \in BOOLEAN, target \in {K, B}, conditional \in BOOLEAN,
               sub \in SubOptions :
                manifest.features[f][i] = ActionString(dep_prefix, target, conditional, sub) =>
                    IF dep_prefix \/ conditional \/ sub # None
                    THEN /\ target \in DOMAIN parsed_features[f].enables_deps
                         /\ target \in parsed_features[f].enables_features =>
                                \E j \in 1..Len(manifest.features[f]) :
                                    j <= MAX_ITEMS /\ manifest.features[f][j] = target
                    ELSE target \in parsed_features[f].enables_features


-----------------------------------------------------------------------------
(* Inlining of hidden features, step by step                               *)

\* The order in which remove_hidden_features removes the hidden features.
RemovalOrder == Sorted(features_to_remove(always_keep, linked_features))

\* The features and the removed_mapping when the first n hidden features have
\* been removed.
AfterRemovals(n) ==
    remove_each([features |-> linked_features, removed_mapping |-> EmptyMap],
                SubSeq(RemovalOrder, 1, n))

\* The action on d that P must have once janky is inlined into it.
MergedAction(parent, janky, d) ==
    IF d \notin DOMAIN janky.enables_deps THEN parent.enables_deps[d]
    ELSE IF d \notin DOMAIN parent.enables_deps THEN janky.enables_deps[d]
    ELSE [is_conditional |-> parent.enables_deps[d].is_conditional
                             /\ janky.enables_deps[d].is_conditional,
          is_dep_only |-> parent.enables_deps[d].is_dep_only \/ janky.enables_deps[d].is_dep_only,
          dep_features |-> parent.enables_deps[d].dep_features
                           \cup janky.enables_deps[d].dep_features]

\* C21: when the hidden feature H is inlined into a predecessor P, parent.enables_deps
\* gets for every key of janky.enables_deps the merge of P's previous action, if any,
\* and H's action (unconditional if either is, dep-only if either is, dep_features
\* the union), and keeps its entries for the other keys unchanged.
C21_InlineMergesDepActions ==
    Returned =>
        /\ AfterRemovals(Len(RemovalOrder)).features = features
        /\ \A n \in 1..Len(RemovalOrder) :
            LET before == AfterRemovals(n - 1).features
                after == AfterRemovals(n).features
                janky == before[RemovalOrder[n]]
            IN  \A p \in janky.enabled_by \cap DOMAIN after :
                    /\ DOMAIN after[p].enables_deps
                        = DOMAIN before[p].enables_deps \cup DOMAIN janky.enables_deps
                    /\ \A d \in DOMAIN after[p].enables_deps :
                        after[p].enables_deps[d] = MergedAction(before[p], janky, d)

\* _h, conditional on b, is inlined into a, which names b with `dep:`: a's
\* action on b stays unconditional and dep-only and gains the sub-feature x.
C21_Witness ==
    /\ Returned
    /\ H \in DOMAIN linked_features
    /\ A \in linked_features[H].enabled_by
    /\ B \in DOMAIN linked_features[H].enables_deps
    /\ B \in DOMAIN linked_features[A].enables_deps
    /\ linked_features[H].enables_deps[B].is_conditional
    /\ ~linked_features[A].enables_deps[B].is_conditional
    /\ linked_features[A].enables_deps[B].is_dep_only
    /\ features[A].enables_deps[B]
        = [is_conditional |-> FALSE, is_dep_only |-> TRUE, dep_features |-> {X}]


\* C22: when the hidden feature janky is removed, the enabled_by of another
\* feature D gains entries only if janky enables the feature D, or enables the
\* dependency D unconditionally and not dependency-only; a D that janky names
\* only conditionally (`D?/x`) gains none.
C22_NoPropagationToConditionalDeps ==
    Returned =>
        \A n \in 1..Len(RemovalOrder) :
            LET before == AfterRemovals(n - 1).features
                after == AfterRemovals(n).features
                janky == before[RemovalOrder[n]]
            IN  \A D \in DOMAIN after :
                    ~(after[D].enabled_by \subseteq before[D].enabled_by) =>
                        \/ D \in janky.enables_features
                        \/ /\ D \in DOMAIN janky.enables_deps
                           /\ ~janky.enables_deps[D].is_conditional
                           /\ ~janky.enables_deps[D].is_dep_only


\* C23: the keys of hidden_features are exactly the removed hidden features, and
\* the value recorded for each is the enables_features it had before any
\* inlining, as the linker left it.
C23_HiddenFeaturesAsDeclared ==
    Returned =>
        /\ DOMAIN hidden_features = RemovedKeys
        /\ \A k \in DOMAIN hidden_features :
            hidden_features[k] = linked_features[k].enables_features


\* The `dependencies` map as it is before remove_hidden_features runs.
DependenciesBeforeRemoval ==
    IF via = "parse" THEN {add_dependencies(parsed_features, manifest).deps}
    ELSE {add_stream([features |-> parsed_features, deps |-> EmptyMap],
                     parsed_features, order).deps :
             order \in Orders(Declarations(manifest))}

\* C24: a feature of the linked graph, declared or synthesized from an optional
\* dependency, is removed exactly when its key starts with `_` and the filter
\* does not return true for it; removed_hidden_features is true exactly when a
\* feature was removed; the removal leaves `dependencies` as it was.
C24_RemovedIffHiddenAndNotKept ==
    Returned =>
        /\ DOMAIN features \subseteq DOMAIN linked_features
        /\ \A k \in DOMAIN linked_features :
            k \notin DOMAIN features
                <=> /\ starts_with_underscore(k)
                    /\ (always_keep = None \/ k \notin Unwrap(always_keep))
        /\ removed_hidden_features <=> DOMAIN linked_features # DOMAIN features
        /\ dependencies \in DependenciesBeforeRemoval

\* The filter keeps _h and not _i, the feature of an optional dependency: _h
\* stays, _i is removed and stays a dependency.
C24_Witness ==
    /\ Returned
    /\ always_keep = Some({H})
    /\ {H, I} \subseteq DOMAIN linked_features
    /\ ~linked_features[I].explicit
    /\ H \in DOMAIN features
    /\ I \notin DOMAIN features
    /\ I \in DOMAIN dependencies
    /\ removed_hidden_features


\* The non-hidden features that the hidden feature h reaches in the linked graph
\* along enables_features edges through hidden features only.
VisibleFromHidden(h) ==
    LET hidden == {k \in DOMAIN linked_features : starts_with_underscore(k)}
        through == Closure(linked_features, {h}, hidden)
    IN  (UNION {linked_features[x].enables_features : x \in through})
        \cap (DOMAIN linked_features \ hidden)

MainDeclaration(k) ==
    LET of_k == {d \in Declarations(manifest) : d.key = k}
    IN  CHOOSE d \in of_k :
            \A e \in of_k :
                e = d \/ TargetKeyLess([kind |-> d.kind, target |-> d.target],
                                       [kind |-> e.kind, target |-> e.target])

\* The sub-feature names that duplicate the declaration of k: "default" when its
\* default-features is on, and the names of its features list.  A version string
\* declares neither.
Duplicated(k) ==
    IF k \notin {d.key : d \in Declarations(manifest)} THEN {}
    ELSE LET dep == MainDeclaration(k).dep
         IN  IF dep.tag # "Detailed" THEN {}
             ELSE (IF dep.default_features THEN {DEFAULT} ELSE {}) \cup Range(dep.features)

\* C26: the pruner removes from the dep_features of each action exactly the names
\* that duplicate the dependency's declaration, and leaves the keys of
\* enables_deps, is_conditional, is_dep_only and enables_features as parsed.
C26_PrunesExactlyDuplicates ==
    Returned =>
        \A f \in DOMAIN parsed_features :
            /\ linked_features[f].enables_features = parsed_features[f].enables_features
            /\ DOMAIN linked_features[f].enables_deps = DOMAIN parsed_features[f].enables_deps
            /\ \A k \in DOMAIN parsed_features[f].enables_deps :
                LET was == parsed_features[f].enables_deps[k]
                    now == linked_features[f].enables_deps[k]
                IN  /\ now.is_conditional = was.is_conditional
                    /\ now.is_dep_only = was.is_dep_only
                    /\ now.dep_features = was.dep_features \ Duplicated(k)

\* a asks for k/default and k/y; k is declared with default-features on: only y
\* is left.
C26_Witness ==
    /\ Returned
    /\ K \in DOMAIN parsed_features[A].enables_deps
    /\ parsed_features[A].enables_deps[K].dep_features = {DEFAULT, Y}
    /\ Duplicated(K) = {DEFAULT}
    /\ linked_features[A].enables_deps[K].dep_features = {Y}
    /\ features[A].enables_deps[K].dep_features = {Y}


\* The declarations the entry point reads: parse takes the first MAX_ITEMS keys of
\* each section, parse_custom the whole stream.
Processed ==
    {d \in Declarations(manifest) :
        \/ via = "parse_custom"
        \/ LET section == {e.key : e \in {x \in Declarations(manifest) :
                                             x.kind = d.kind /\ x.target = d.target}}
           IN  d.key \in Range(Take(Sorted(section), MAX_ITEMS))}

\* The TargetKey -> declaration map of the processed declarations of k.
DeclaredTargets(k) ==
    LET of_k == {d \in Processed : d.key = k}
    IN  [tk \in {[kind |-> d.kind, target |-> d.target] : d \in of_k} |->
            (CHOOSE d \in of_k : d.kind = tk.kind /\ d.target = tk.target).dep]

\* C27: for every key of `dependencies`, targets holds one entry for each TargetKey
\* under which the key is declared in the processed input, with that declaration.
C27_TargetsHoldEveryDeclaration ==
    Returned => \A k \in DOMAIN dependencies : dependencies[k].targets = DeclaredTargets(k)


\* The most common usage among the processed declarations of k.
MostCommonKind(k) ==
    LET kinds == {d.kind : d \in {e \in Processed : e.key = k}}
    IN  IF "Normal" \in kinds THEN "Normal"
        ELSE IF "Build" \in kinds THEN "Build" ELSE "Dev"

\* C28: every entry of `dependencies` has a declaration in targets, and detail()
\* returns a Normal declaration if the key has one, otherwise a Build one,
\* otherwise a Dev one.
C28_DetailIsMostCommonUsage ==
    Returned =>
        \A k \in DOMAIN dependencies :
            /\ DOMAIN dependencies[k].targets # {}
            /\ detail(dependencies[k]) # None
            /\ Unwrap(detail(dependencies[k])).kind = MostCommonKind(k)

\* Whatever declaration detail() returns, targets is never empty.
TargetsNonEmpty ==
    Returned => \A k \in DOMAIN dependencies : DOMAIN dependencies[k].targets # {}


\* C29: in the result no feature has its own key in enabled_by, and no feature has
\* its own key in enables_features unless it had it before hidden features were
\* inlined.
C29_NoSelfEdgeAfterInlining ==
    Returned =>
        \A f \in DOMAIN features :
            /\ f \notin features[f].enabled_by
            /\ f \in features[f].enables_features
                   => f \in linked_features[f].enables_features

\* The linker alone leaves no feature in its own enabled_by.
LinkerExcludesSelf ==
    Returned => \A f \in DOMAIN linked_features : f \notin linked_features[f].enabled_by


\* C30: completing a manifest from a workspace leaves every package field that the
\* member manifest sets itself as it was.
C30_SetPackageFieldsKept ==
    [][manifest.package # None =>
          /\ manifest'.package # None
          /\ \A f \in PackageFields :
                Unwrap(manifest.package).fields[f] = "member"
                    => Unwrap(manifest'.package).fields[f] = "member"]_vars

\* The same for every field but license-file.
OtherSetPackageFieldsKept ==
    [][manifest.package # None =>
          /\ manifest'.package # None
          /\ \A f \in PackageFields \ {"license_file"} :
                Unwrap(manifest.package).fields[f] = "member"
                    => Unwrap(manifest'.package).fields[f] = "member"]_vars

====
